---- MODULE Spec2Model ----
(***************************************************************************)
(* Model of the TLDR playback engine: the React hook useSpeech             *)
(* (components/useSpeech.ts), the Home component's handlers that drive it  *)
(* (components/Button.tsx) and the browser's SpeechSynthesis queue the     *)
(* hook talks to.                                                          *)
(*                                                                         *)
(* React state (status, index, rate, segments) is read by a handler from   *)
(* the closure of the render that created the handler; a setState call     *)
(* only takes effect at the next render.  A user event runs the handlers   *)
(* of the latest render, so it reads the committed state; within one       *)
(* handler a read of `index` after setIndex still yields the old value.    *)
(* The callbacks bound to an utterance (onstart/onend/onerror) keep the    *)
(* closure of the render in which speakFrom created the utterance: its     *)
(* `segments` and `rate`.  synthRef is a ref and is always read live.      *)
(*                                                                         *)
(* SpeechSynthesis follows the W3C Web Speech API: speak() appends to the  *)
(* queue, cancel() empties the queue and does not change the paused        *)
(* state, pause()/resume() set and clear the paused state whatever the     *)
(* queue holds.  The events of an utterance are dispatched as tasks: an    *)
(* utterance removed by cancel() may still deliver an event afterwards,    *)
(* its error event (canceled/interrupted, as the API specifies) or its     *)
(* end event (as Chromium does), or none.                                  *)
(*                                                                         *)
(* Spec is the playback engine; SpecRate adds the speed slider.  SpecDemo  *)
(* applies normalizeDemoText to every short text.  SpecApi runs the        *)
(* thread endpoint (POST) on a request, one step per await: each upstream  *)
(* fetch is answered by an HTTP response, successful or not.  SpecHome is  *)
(* the Home component's payload under fetches, demo loads and Clear;       *)
(* SpecEmpty is the engine on a payload whose only segment has no text;    *)
(* SpecIos is the iOS Speaker (ios/TLDRiOS/ContentView.swift).             *)
(***************************************************************************)
EXTENDS Integers, Sequences, FiniteSets, TLC

\* Longest segment list of a payload.
MaxLen == 3
\* skip(delta) is explored for delta in -MaxDelta..MaxDelta.
MaxDelta == 2
\* Number of cancelled utterances whose late event is still tracked.
MaxStale == 1
\* useState(1.0): the rate, in tenths.
DefaultRate == 10
\* The speed slider's max="1.5", in tenths.
MaxRate == 15
\* Longest text handed to normalizeDemoText.
MaxText == 4
\* Most posts in a search response, and the longest text of a post.
MaxTweets == 2
MaxTweetText == 1
\* Number of load and clear actions of the user in one run of Home.
MaxActions == 3
\* Utterances the AVSpeechSynthesizer is let hold, and didFinish blocks let
\* wait on the main queue, before the run is cut off.
MaxQueued == 3
MaxBlocks == 2

VARIABLES
  segments,    \* Home: payload?.segments ?? []
  status,      \* useSpeech: status
  index,       \* useSpeech: index
  rate,        \* useSpeech: rate (tenths)
  synthAvail,  \* synthRef.current is a SpeechSynthesis object
  queue,       \* SpeechSynthesis: the utterance queue, head = current utterance
  paused,      \* SpeechSynthesis.paused
  stale,       \* utterances removed by cancel() whose event may still arrive
  last,        \* observer: the last operation, its argument and backend calls
  run,         \* observer: the segment last submitted since play(), -1 once
               \* a transport command or an error has intervened
  demo,        \* a call of normalizeDemoText: its argument and its result
  api,         \* a request to the thread endpoint: POST's position, its
               \* inputs, the upstream requests it made and its response
  home,        \* Home: url, loading, err, the fetches in flight and where
               \* the displayed payload came from
  ios          \* the iOS Speaker and its AVSpeechSynthesizer

vars == <<segments, status, index, rate, synthAvail, queue, paused, stale, last, run,
          demo, api, home, ios>>

Statuses == {"idle", "playing", "paused", "ended", "error"}
\* The values the speed slider is moved between.
Rates == {DefaultRate, MaxRate}
\* No call of normalizeDemoText and no request to the endpoint is under way.
NoDemo == [pc |-> "off", text |-> <<>>, segments |-> <<>>]
NoBody == [hasUrl |-> FALSE, abs |-> FALSE, path |-> <<>>]
NoRoot == [ok |-> FALSE, data |-> FALSE, text |-> <<>>, conv |-> FALSE,
           author |-> FALSE, name |-> ""]
NoSearch == [ok |-> FALSE, tweets |-> <<>>]
NoResponse == [code |-> 0, error |-> "", title |-> <<>>, segments |-> <<>>,
               warning |-> FALSE]
NoRequest == [pc |-> "off", body |-> NoBody, token |-> FALSE, reqs |-> <<>>,
              root |-> NoRoot, search |-> NoSearch, res |-> NoResponse]
\* Home as mounted: useState("") url, useState(false) loading, no payload.
NoHome == [url |-> FALSE, loading |-> FALSE, err |-> FALSE, pending |-> {},
           acts |-> 0, kind |-> "none", shown |-> 0]
\* The Speaker is not part of the run.
NoSpeaker == [pc |-> "off", count |-> 0, index |-> 0, currentIndex |-> 0,
              isPlaying |-> FALSE, synth |-> <<>>, isPaused |-> FALSE,
              blocks |-> 0]
Deltas == (0 - MaxDelta)..MaxDelta

\* ThreadSegment {id, text}.  The payloads are the first n lines of one text,
\* n = 1..MaxLen: the engine never inspects a text, and two payloads that
\* share their leading segments are the hardest to tell apart.
Seg(i) == [id |-> i, text |-> <<"line", i>>]
Payload(n) == [j \in 1..n |-> Seg(j - 1)]
Payloads == {Payload(n) : n \in 1..MaxLen}

\* segments[i] of the code (0-based): HasSeg is false where it is undefined.
HasSeg(segs, i) == i >= 0 /\ i < Len(segs)
SegAt(segs, i) == segs[i + 1]

Min(a, b) == IF a < b THEN a ELSE b
Max(a, b) == IF a > b THEN a ELSE b
ClampWrap(x, lo, hi) == lo + ((x - lo) % (hi - lo + 1))
Clamp(x, lo, hi) == Min(Max(x, lo), hi)

(***************************************************************************)
(* The engine state a handler works on: the pending React state writes     *)
(* (status, index), the backend (queue, paused, stale) and the backend     *)
(* calls made so far by the handler (spoke, cancelled).                    *)
(***************************************************************************)
Cur == [status |-> status, index |-> index, queue |-> queue, paused |-> paused,
        stale |-> stale, spoke |-> 0, cancelled |-> 0]

\* new SpeechSynthesisUtterance(seg.text) with its handlers' closure.
Utterance(segs, r, startIndex) ==
  [idx |-> startIndex, text |-> SegAt(segs, startIndex).text, rate |-> r,
   segs |-> segs, started |-> FALSE]

RECURSIVE AddStale(_, _)
AddStale(st, q) ==
  IF q = <<>> THEN st
  ELSE AddStale(IF Cardinality(st) < MaxStale
                  THEN st \cup {[Head(q) EXCEPT !.started = FALSE]}
                  ELSE st,
                Tail(q))

\* synth.cancel()
SynthCancel(s) ==
  [s EXCEPT !.queue = <<>>, !.stale = AddStale(s.stale, s.queue),
            !.cancelled = @ + Len(s.queue)]

\* synth.speak(u)
SynthSpeak(s, u) == [s EXCEPT !.queue = Append(@, u), !.spoke = @ + 1]

\* stop(); utterRef is written and never read, and is left out.
stopResetsIndex(s) ==
  IF ~synthAvail THEN s ELSE [SynthCancel(s) EXCEPT !.status = "idle", !.index = 0]
stop(s) ==
  IF ~synthAvail THEN s ELSE [SynthCancel(s) EXCEPT !.status = "idle"]

\* speakFrom(startIndex), run with the segments and rate of its closure.
speakFromNoCancel(s, segs, r, startIndex) ==
  IF ~synthAvail THEN [s EXCEPT !.status = "error"]
  ELSE IF ~HasSeg(segs, startIndex) THEN [s EXCEPT !.status = "ended"]
       ELSE SynthSpeak([s EXCEPT !.index = startIndex], Utterance(segs, r, startIndex))
speakFromOptimistic(s, segs, r, startIndex) ==
  IF ~synthAvail THEN [s EXCEPT !.status = "error"]
  ELSE LET c == SynthCancel(s) IN
       IF ~HasSeg(segs, startIndex) THEN [c EXCEPT !.status = "ended"]
       ELSE SynthSpeak([c EXCEPT !.index = startIndex, !.status = "playing"],
                       Utterance(segs, r, startIndex))
speakFrom(s, segs, r, startIndex) ==
  IF ~synthAvail THEN [s EXCEPT !.status = "error"]
  ELSE LET c == SynthCancel(s) IN
       IF ~HasSeg(segs, startIndex) THEN [c EXCEPT !.status = "ended"]
       ELSE SynthSpeak([c EXCEPT !.index = startIndex], Utterance(segs, r, startIndex))

\* u.onend of an utterance created by speakFrom(startIndex) in a render
\* whose segments were u.segs and whose rate was u.rate.
onend(s, u) ==
  LET next == u.idx + 1 IN
  IF next < Len(u.segs)
    THEN speakFrom([s EXCEPT !.index = next], u.segs, u.rate, next)
    ELSE [s EXCEPT !.status = "ended"]

\* u.onerror
onerrorAdvances(s, u) == onend(s, u)
onerror(s, u) == [s EXCEPT !.status = "error"]

\* play(): synth.paused is read live, index from the closure.
playNoEmptyGuard(s) ==
  IF ~synthAvail THEN [s EXCEPT !.status = "error"]
  ELSE IF s.paused THEN [s EXCEPT !.paused = FALSE, !.status = "playing"]
  ELSE speakFrom(s, segments, rate, index)
playRestarts(s) ==
  IF segments = <<>> THEN s
  ELSE IF ~synthAvail THEN [s EXCEPT !.status = "error"]
  ELSE speakFrom(s, segments, rate, index)
play(s) ==
  IF segments = <<>> THEN s
  ELSE IF ~synthAvail THEN [s EXCEPT !.status = "error"]
  ELSE IF s.paused THEN [s EXCEPT !.paused = FALSE, !.status = "playing"]
  ELSE speakFrom(s, segments, rate, index)

pause(s) ==
  IF ~synthAvail THEN s ELSE [s EXCEPT !.paused = TRUE, !.status = "paused"]

restartKeepsIndex(s) == speakFrom(stop(s), segments, rate, index)
restart(s) == speakFrom([stop(s) EXCEPT !.index = 0], segments, rate, 0)

skip(s, delta) ==
  IF segments = <<>> THEN s
  ELSE LET next == Clamp(index + delta, 0, Len(segments) - 1) IN
       speakFrom(stop(s), segments, rate, next)

\* The auto-advance run after a handler: play() starts one when it submits an
\* utterance, the backend's start and end events continue it, anything else
\* ends it.
RunAfter(s, op) ==
  IF op = "play"
    THEN (IF s.spoke = 1 THEN s.queue[Len(s.queue)].idx ELSE 0 - 1)
  ELSE IF op \in {"onstart", "onend", "stale_onend"} /\ run >= 0
    THEN (IF s.spoke >= 1 THEN s.queue[Len(s.queue)].idx ELSE run)
  ELSE 0 - 1

\* The render after a handler: the React state and the backend as left by it.
Commit(s, op, arg) ==
  /\ run' = RunAfter(s, op)
  /\ status' = s.status
  /\ index' = s.index
  /\ queue' = s.queue
  /\ paused' = s.paused
  /\ stale' = s.stale
  /\ last' = [op |-> op, arg |-> arg, from |-> index,
              spoke |-> s.spoke, cancelled |-> s.cancelled]
  /\ UNCHANGED <<demo, api, ios>>

Init ==
  /\ segments = <<>>
  /\ status = "idle"
  /\ index = 0
  /\ rate = DefaultRate
  /\ synthAvail \in BOOLEAN
  /\ queue = <<>>
  /\ paused = FALSE
  /\ stale = {}
  /\ last = [op |-> "init", arg |-> 0, from |-> 0,
             spoke |-> 0, cancelled |-> 0]
  /\ run = 0 - 1
  /\ demo = NoDemo
  /\ api = NoRequest
  /\ home = NoHome
  /\ ios = NoSpeaker

----------------------------------------------------------------------------
\* Transport controls of the hook.

Play ==
  /\ Commit(play(Cur), "play", 0)
  /\ UNCHANGED <<segments, rate, synthAvail, home>>

Pause ==
  /\ Commit(pause(Cur), "pause", 0)
  /\ UNCHANGED <<segments, rate, synthAvail, home>>

Stop ==
  /\ Commit(stop(Cur), "stop", 0)
  /\ UNCHANGED <<segments, rate, synthAvail, home>>

Restart ==
  /\ Commit(restart(Cur), "restart", 0)
  /\ UNCHANGED <<segments, rate, synthAvail, home>>

Skip ==
  \E d \in Deltas :
    /\ Commit(skip(Cur, d), "skip", d)
    /\ UNCHANGED <<segments, rate, synthAvail, home>>

\* Home: the segment button's onClick: stop(); setIndex(i); play().
\* play() is the closure of the current render: it reads the old index.
SelectSegment ==
  \E i \in 0..(Len(segments) - 1) :
    /\ Commit(play([stop(Cur) EXCEPT !.index = i]), "select", i)
    /\ UNCHANGED <<segments, rate, synthAvail, home>>

\* Home.startDemo: speech.stop(); setPayload({segments: segs}).
StartDemo ==
  \E p \in Payloads :
    /\ segments' = p
    /\ Commit(stop(Cur), "load", Len(p))
    /\ UNCHANGED <<rate, synthAvail, home>>

\* Home: the Clear button: setPayload(null); speech.stop().
Clear ==
  /\ segments' = <<>>
  /\ Commit(stop(Cur), "clear", 0)
  /\ UNCHANGED <<rate, synthAvail, home>>

----------------------------------------------------------------------------
\* Events of the speech backend.

\* The current utterance begins to be spoken: u.onstart.
BackendStart ==
  /\ queue # <<>>
  /\ ~paused
  /\ ~Head(queue).started
  /\ Commit([Cur EXCEPT !.queue = <<[Head(queue) EXCEPT !.started = TRUE]>> \o Tail(queue),
                        !.status = "playing"], "onstart", Head(queue).idx)
  /\ UNCHANGED <<segments, rate, synthAvail, home>>

\* The current utterance has been spoken to its end: it leaves the queue, u.onend.
BackendEnd ==
  /\ queue # <<>>
  /\ ~paused
  /\ Head(queue).started
  /\ Commit(onend([Cur EXCEPT !.queue = Tail(queue)], Head(queue)), "onend", Head(queue).idx)
  /\ UNCHANGED <<segments, rate, synthAvail, home>>

\* The current utterance fails: it leaves the queue, u.onerror.
BackendError ==
  /\ queue # <<>>
  /\ Commit(onerror([Cur EXCEPT !.queue = Tail(queue)], Head(queue)), "onerror", Head(queue).idx)
  /\ UNCHANGED <<segments, rate, synthAvail, home>>

\* The end event of an utterance that cancel() removed arrives.
StaleEnd ==
  \E u \in stale :
    /\ Commit(onend([Cur EXCEPT !.stale = @ \ {u}], u), "stale_onend", u.idx)
    /\ UNCHANGED <<segments, rate, synthAvail, home>>

\* The error event of an utterance that cancel() removed arrives.
StaleError ==
  \E u \in stale :
    /\ Commit(onerror([Cur EXCEPT !.stale = @ \ {u}], u), "stale_onerror", u.idx)
    /\ UNCHANGED <<segments, rate, synthAvail, home>>

Next ==
  \/ Play
  \/ Pause
  \/ Stop
  \/ Restart
  \/ Skip
  \/ SelectSegment
  \/ StartDemo
  \/ Clear
  \/ BackendStart
  \/ BackendEnd
  \/ BackendError
  \/ StaleEnd
  \/ StaleError

Spec == Init /\ [][Next]_vars

----------------------------------------------------------------------------
\* The speed control.

\* Home: the slider's onChange: speech.setRate(Number(e.target.value)).
\* Nothing else runs: the utterances already created keep the rate, and the
\* closure, they were created with.
SetRate ==
  \E r \in Rates \ {rate} :
    /\ rate' = r
    /\ last' = [op |-> "setRate", arg |-> r, from |-> index,
                spoke |-> 0, cancelled |-> 0]
    /\ UNCHANGED <<segments, status, index, synthAvail, queue, paused, stale,
                   run, demo, api, home, ios>>

NextRate ==
  \/ Next
  \/ SetRate

SpecRate == Init /\ [][NextRate]_vars

----------------------------------------------------------------------------
\* Demo mode: normalizeDemoText.  A text is a sequence of characters.

Chars == {"a", "b", " ", "\n"}
White == {" ", "\n"}
TextsUpTo(n) == UNION {[1..k -> Chars] : k \in 0..n}

\* `${i}` for the small numbers the model formats.
Digits == <<"0", "1", "2", "3", "4", "5", "6", "7", "8", "9">>
Str(n) == Digits[n + 1]

\* String.prototype.trim
RECURSIVE TrimStart(_)
TrimStart(t) ==
  IF t # <<>> /\ Head(t) \in White THEN TrimStart(Tail(t)) ELSE t
RECURSIVE TrimEnd(_)
TrimEnd(t) ==
  IF t # <<>> /\ t[Len(t)] \in White THEN TrimEnd(SubSeq(t, 1, Len(t) - 1)) ELSE t
Trim(t) == TrimEnd(TrimStart(t))

\* text.split(/\n+/): the pieces between the runs of newlines; a run at the
\* start or at the end of the text leaves an empty piece there.
RECURSIVE SkipNewlines(_)
SkipNewlines(t) ==
  IF t # <<>> /\ Head(t) = "\n" THEN SkipNewlines(Tail(t)) ELSE t
RECURSIVE SplitFrom(_, _)
SplitFrom(t, piece) ==
  IF t = <<>> THEN <<piece>>
  ELSE IF Head(t) = "\n" THEN <<piece>> \o SplitFrom(SkipNewlines(t), <<>>)
  ELSE SplitFrom(Tail(t), Append(piece, Head(t)))
SplitLines(t) == SplitFrom(t, <<>>)

NonEmpty(l) == l # <<>>
DemoSegments(lines) ==
  [i \in 1..Len(lines) |-> [id |-> <<"demo", Str(i - 1)>>, text |-> lines[i]]]

normalizeDemoTextKeepsBlank(text) ==
  LET pieces == SplitLines(text)
      lines == [k \in 1..Len(pieces) |-> Trim(pieces[k])]
  IN  DemoSegments(lines)
normalizeDemoText(text) ==
  LET pieces == SplitLines(text)
      lines == SelectSeq([k \in 1..Len(pieces) |-> Trim(pieces[k])], NonEmpty)
      segs == DemoSegments(lines)
  IN  IF Len(segs) # 0 THEN segs
      ELSE <<[id |-> <<"demo", "0">>, text |-> Trim(text)]>>

\* The hook as created, with a speech backend and nothing loaded.
HookFresh ==
  /\ segments = <<>>
  /\ status = "idle"
  /\ index = 0
  /\ rate = DefaultRate
  /\ synthAvail = TRUE
  /\ queue = <<>>
  /\ paused = FALSE
  /\ stale = {}
  /\ last = [op |-> "init", arg |-> 0, from |-> 0,
             spoke |-> 0, cancelled |-> 0]
  /\ run = 0 - 1

InitDemo ==
  /\ HookFresh
  /\ home = NoHome
  /\ ios = NoSpeaker
  /\ demo \in {[pc |-> "call", text |-> t, segments |-> <<>>] : t \in TextsUpTo(MaxText)}
  /\ api = NoRequest

\* Home.startDemo: const segs = normalizeDemoText(demoText).
NormalizeDemo ==
  /\ demo.pc = "call"
  /\ demo' = [demo EXCEPT !.pc = "done", !.segments = normalizeDemoText(demo.text)]
  /\ UNCHANGED <<segments, status, index, rate, synthAvail, queue, paused, stale,
                 last, run, api, home, ios>>

NextDemo == NormalizeDemo

SpecDemo == InitDemo /\ [][NextDemo]_vars

----------------------------------------------------------------------------
\* The thread endpoint: POST.  The request body is absent/malformed
\* (hasUrl = FALSE) or carries a url string; `abs` says whether the string is
\* an absolute URL (z.string().url() accepts it) and `path` lists what
\* follows the host, split at "/".

Url(abs, path) == [hasUrl |-> TRUE, abs |-> abs, path |-> path]
Bodies ==
  { NoBody,
    Url(TRUE, <<"alice", "status", "42">>),
    Url(TRUE, <<"alice", "Statuses", "7x">>),
    Url(TRUE, <<"alice">>),
    Url(TRUE, <<"alice", "status">>),
    Url(FALSE, <<"alice", "status", "42">>) }

\* The regular expression's /i flag, and its (\d+) on one part of the path.
Lower(part) == IF part = "Statuses" THEN "statuses" ELSE part
DigitPrefix(part) ==
  IF part = "42" THEN "42" ELSE IF part = "7x" THEN "7" ELSE ""

\* InputSchema.safeParse(body).success
safeParse(body) == body.hasUrl /\ body.abs

\* url.match(/\/(status|statuses)\/(\d+)/i)?.[2] ?? null; null is "".
extractStatusId(url) ==
  LET hits == {i \in 1..(Len(url.path) - 1) :
                 /\ Lower(url.path[i]) \in {"status", "statuses"}
                 /\ DigitPrefix(url.path[i + 1]) # ""}
  IN  IF hits = {} THEN ""
      ELSE DigitPrefix(url.path[(CHOOSE i \in hits : \A j \in hits : i <= j) + 1])

\* t.replace(/\s+/g, " ").trim(); the second replace maps each URL to itself.
RECURSIVE SkipWhite(_)
SkipWhite(t) ==
  IF t # <<>> /\ Head(t) \in White THEN SkipWhite(Tail(t)) ELSE t
RECURSIVE Collapse(_)
Collapse(t) ==
  IF t = <<>> THEN <<>>
  ELSE IF Head(t) \in White THEN <<" ">> \o Collapse(SkipWhite(t))
  ELSE <<Head(t)>> \o Collapse(Tail(t))
cleanText(t) == Trim(Collapse(t))

\* What the upstream API may answer.  name = "" stands for a response without
\* a user or without a user name: user?.name is falsy.
TweetChars == {"a", " "}
TweetTexts == UNION {[1..k -> TweetChars] : k \in 0..MaxTweetText}
Times == 1..2
Names == {"", "Al"}
RootResponses ==
  {NoRoot}
  \cup {[ok |-> TRUE, data |-> FALSE, text |-> <<>>, conv |-> FALSE,
         author |-> FALSE, name |-> n] : n \in Names}
  \cup {[ok |-> TRUE, data |-> TRUE, text |-> t, conv |-> c, author |-> a,
         name |-> n] : t \in TweetTexts, c \in BOOLEAN, a \in BOOLEAN, n \in Names}
\* The k-th post of a response has id k; created_at is the time it parses to.
Tweets(n) ==
  {[k \in 1..n |-> [id |-> k, text |-> tx[k], created_at |-> tm[k]]] :
     tx \in [1..n -> TweetTexts], tm \in [1..n -> Times]}
SearchResponses ==
  {NoSearch} \cup {[ok |-> TRUE, tweets |-> tw] : tw \in UNION {Tweets(n) : n \in 0..MaxTweets}}

\* tweets.sort((a, b) => time(a) - time(b)): Array.prototype.sort is stable.
RECURSIVE InsertBeforeTies(_, _)
InsertBeforeTies(sorted, t) ==
  IF sorted = <<>> THEN <<t>>
  ELSE IF sorted[Len(sorted)].created_at - t.created_at < 0 THEN Append(sorted, t)
  ELSE Append(InsertBeforeTies(SubSeq(sorted, 1, Len(sorted) - 1), t), sorted[Len(sorted)])
RECURSIVE InsertByTime(_, _)
InsertByTime(sorted, t) ==
  IF sorted = <<>> THEN <<t>>
  ELSE IF sorted[Len(sorted)].created_at - t.created_at <= 0 THEN Append(sorted, t)
  ELSE Append(InsertByTime(SubSeq(sorted, 1, Len(sorted) - 1), t), sorted[Len(sorted)])
RECURSIVE SortByTime(_)
SortByTime(tweets) ==
  IF tweets = <<>> THEN <<>>
  ELSE InsertByTime(SortByTime(SubSeq(tweets, 1, Len(tweets) - 1)), tweets[Len(tweets)])

\* `${who} (${n} ${noun})`
Title(who, n, noun) == <<who, Str(n), noun>>
Who(name) == IF name # "" THEN name ELSE "Thread"

Failure(code, error) == [NoResponse EXCEPT !.code = code, !.error = error]
Respond(a, res) == [a EXCEPT !.pc = "done", !.res = res]

\* The two root-only returns: segments: [{ id: String(id), text }].
RootOnly(a, root, warning) ==
  [code |-> 200, error |-> "",
   title |-> Title(Who(root.name), 1, "post"),
   segments |-> <<[id |-> extractStatusId(a.body),
                   text |-> cleanText(IF root.data THEN root.text ELSE <<>>)]>>,
   warning |-> warning]

\* POST up to the first await fetch.
PostStartTokenFirst(a) ==
  IF ~safeParse(a.body) THEN Respond(a, Failure(400, "invalid_request"))
  ELSE IF ~a.token THEN Respond(a, Failure(501, "missing_token"))
  ELSE IF extractStatusId(a.body) = "" THEN Respond(a, Failure(400, "no_post_id"))
  ELSE [a EXCEPT !.pc = "root", !.reqs = Append(@, "root")]
PostStart(a) ==
  IF ~safeParse(a.body) THEN Respond(a, Failure(400, "invalid_request"))
  ELSE IF extractStatusId(a.body) = "" THEN Respond(a, Failure(400, "no_post_id"))
  ELSE IF ~a.token THEN Respond(a, Failure(501, "missing_token"))
  ELSE [a EXCEPT !.pc = "root", !.reqs = Append(@, "root")]

\* POST from the answer of the root fetch to the second await fetch.
PostRootIgnoresAuthor(a, root) ==
  IF ~root.ok THEN Respond([a EXCEPT !.root = root], Failure(502, "root_fetch"))
  ELSE IF ~(root.data /\ root.conv)
    THEN Respond([a EXCEPT !.root = root], RootOnly(a, root, FALSE))
  ELSE [a EXCEPT !.root = root, !.pc = "search", !.reqs = Append(@, "search")]
PostRoot(a, root) ==
  IF ~root.ok THEN Respond([a EXCEPT !.root = root], Failure(502, "root_fetch"))
  ELSE IF ~(root.data /\ root.conv) \/ ~(root.data /\ root.author)
    THEN Respond([a EXCEPT !.root = root], RootOnly(a, root, FALSE))
  ELSE [a EXCEPT !.root = root, !.pc = "search", !.reqs = Append(@, "search")]

\* tweets.map(...).filter(s => s.text.length > 0)
HasText(seg) == Len(seg.text) > 0
ThreadSegments(tweets) ==
  SelectSeq([k \in 1..Len(tweets) |->
               [id |-> Str(tweets[k].id), text |-> cleanText(tweets[k].text)]],
            HasText)

\* POST from the answer of the search fetch to its return.
PostSearchCountsAll(a, search) ==
  IF ~search.ok
    THEN Respond([a EXCEPT !.search = search], RootOnly(a, a.root, TRUE))
  ELSE Respond([a EXCEPT !.search = search],
               [code |-> 200, error |-> "",
                title |-> Title(Who(a.root.name), Len(search.tweets), "posts"),
                segments |-> ThreadSegments(SortByTime(search.tweets)),
                warning |-> FALSE])
PostSearch(a, search) ==
  IF ~search.ok
    THEN Respond([a EXCEPT !.search = search], RootOnly(a, a.root, TRUE))
  ELSE LET segs == ThreadSegments(SortByTime(search.tweets))
       IN  Respond([a EXCEPT !.search = search],
                   [code |-> 200, error |-> "",
                    title |-> Title(Who(a.root.name), Len(segs), "posts"),
                    segments |-> segs,
                    warning |-> FALSE])

InitApi ==
  /\ HookFresh
  /\ home = NoHome
  /\ ios = NoSpeaker
  /\ demo = NoDemo
  /\ api \in {[NoRequest EXCEPT !.pc = "start", !.body = b, !.token = t] :
                b \in Bodies, t \in BOOLEAN}

ApiFrame ==
  UNCHANGED <<segments, status, index, rate, synthAvail, queue, paused, stale,
              last, run, demo, home, ios>>

PostValidate ==
  /\ api.pc = "start"
  /\ api' = PostStart(api)
  /\ ApiFrame

RootFetched ==
  /\ api.pc = "root"
  /\ \E r \in RootResponses : api' = PostRoot(api, r)
  /\ ApiFrame

SearchFetched ==
  /\ api.pc = "search"
  /\ \E sr \in SearchResponses : api' = PostSearch(api, sr)
  /\ ApiFrame

NextApi ==
  \/ PostValidate
  \/ RootFetched
  \/ SearchFetched

SpecApi == InitApi /\ [][NextApi]_vars

----------------------------------------------------------------------------
\* Home: the payload on display.  The user's load and clear actions are
\* numbered 1, 2, ... (home.acts counts them, home.kind is the kind of the
\* latest); a fetch in flight is known by the number of the action that
\* started it, and home.shown is the number of the action whose payload is
\* on display, 0 when payload is null.

InitHome ==
  /\ HookFresh
  /\ demo = NoDemo
  /\ api = NoRequest
  /\ home = NoHome
  /\ ios = NoSpeaker

\* The url input's onChange: setUrl(e.target.value), empty or not.
HomeSetUrl ==
  /\ home' = [home EXCEPT !.url = ~@]
  /\ UNCHANGED <<segments, status, index, rate, synthAvail, queue, paused, stale,
                 last, run, demo, api, ios>>

\* fetchThread up to its await; the button is disabled={!url || loading}.
HomeFetch ==
  /\ home.url /\ ~home.loading
  /\ home.acts < MaxActions
  /\ home' = [home EXCEPT !.err = FALSE, !.loading = TRUE, !.shown = 0,
                          !.acts = @ + 1, !.kind = "fetch",
                          !.pending = @ \cup {home.acts + 1}]
  /\ segments' = <<>>
  /\ Commit(stop(Cur), "fetch", 0)
  /\ UNCHANGED <<rate, synthAvail>>

\* fetchThread after its await: the answer to the fetch numbered k.
\* setPayload(json) on success, setErr otherwise; finally setLoading(false).
HomeFetchReturns ==
  \E k \in home.pending :
    /\ \/ \E p \in Payloads :
            /\ segments' = p
            /\ home' = [home EXCEPT !.pending = @ \ {k}, !.shown = k,
                                    !.loading = FALSE]
       \/ /\ home' = [home EXCEPT !.pending = @ \ {k}, !.err = TRUE,
                                  !.loading = FALSE]
          /\ UNCHANGED segments
    /\ UNCHANGED <<status, index, rate, synthAvail, queue, paused, stale,
                   last, run, demo, api, ios>>

\* startDemo: setErr(null); speech.stop(); setPayload({segments: segs}).
HomeLoadDemo ==
  /\ home.acts < MaxActions
  /\ \E p \in Payloads : segments' = p
  /\ home' = [home EXCEPT !.err = FALSE, !.shown = home.acts + 1,
                          !.acts = @ + 1, !.kind = "demo"]
  /\ Commit(stop(Cur), "load", Len(segments'))
  /\ UNCHANGED <<rate, synthAvail>>

\* Clear: setUrl(""); setPayload(null); setErr(null); speech.stop().
HomeClear ==
  /\ home.acts < MaxActions
  /\ home' = [home EXCEPT !.url = FALSE, !.err = FALSE, !.shown = 0,
                          !.acts = @ + 1, !.kind = "clear"]
  /\ segments' = <<>>
  /\ Commit(stop(Cur), "clear", 0)
  /\ UNCHANGED <<rate, synthAvail>>

NextHome ==
  \/ HomeSetUrl
  \/ HomeFetch
  \/ HomeFetchReturns
  \/ HomeLoadDemo
  \/ HomeClear

SpecHome == InitHome /\ [][NextHome]_vars

----------------------------------------------------------------------------
\* The engine on the payload of a root-only result whose post has no text:
\* one segment, its text empty.

EmptyPayload == <<[id |-> 0, text |-> <<>>]>>

InitEmpty ==
  /\ segments = EmptyPayload
  /\ status = "idle"
  /\ index = 0
  /\ rate = DefaultRate
  /\ synthAvail \in BOOLEAN
  /\ queue = <<>>
  /\ paused = FALSE
  /\ stale = {}
  /\ last = [op |-> "init", arg |-> 0, from |-> 0,
             spoke |-> 0, cancelled |-> 0]
  /\ run = 0 - 1
  /\ demo = NoDemo
  /\ api = NoRequest
  /\ home = NoHome
  /\ ios = NoSpeaker

SpecEmpty == InitEmpty /\ [][Next]_vars

----------------------------------------------------------------------------
\* The iOS Speaker.  ios.count is queue.count (the Speaker never reads a
\* text back), ios.synth lists the segment numbers of the utterances the
\* AVSpeechSynthesizer holds, the head being spoken, and ios.blocks counts
\* the blocks that didFinish has put on the main queue and that have not run.
\* stopSpeaking(at: .immediate) empties the synthesizer and reports
\* didCancel, not didFinish, for what it removes.

\* synth.stopSpeaking(at: .immediate)
stopSpeaking(i) == [i EXCEPT !.synth = <<>>, !.isPaused = FALSE]

speakCurrent(i) ==
  IF ~(i.index < i.count) THEN [i EXCEPT !.isPlaying = FALSE]
  ELSE [i EXCEPT !.isPlaying = TRUE, !.synth = Append(@, i.index)]

SpeakerStop(i) == [stopSpeaking(i) EXCEPT !.isPlaying = FALSE]

SpeakerLoad(i, n) ==
  [SpeakerStop(i) EXCEPT !.count = n, !.index = 0, !.currentIndex = 0]

SpeakerPlay(i) ==
  IF i.count = 0 THEN i
  ELSE IF i.isPaused THEN [i EXCEPT !.isPaused = FALSE, !.isPlaying = TRUE]
  ELSE speakCurrent(i)

\* pauseSpeaking pauses only a synthesizer that is speaking.
SpeakerPause(i) == [i EXCEPT !.isPaused = (i.synth # <<>>), !.isPlaying = FALSE]

SpeakerNext(i) ==
  IF ~(i.index + 1 < i.count) THEN i
  ELSE speakCurrent([stopSpeaking(i) EXCEPT !.index = i.index + 1,
                                            !.currentIndex = i.index + 1])

SpeakerPrev(i) ==
  IF ~(i.index - 1 >= 0) THEN i
  ELSE speakCurrent([stopSpeaking(i) EXCEPT !.index = i.index - 1,
                                            !.currentIndex = i.index - 1])

\* The block of didFinish, run later by the main queue.
didFinishBlock(i) ==
  IF i.index + 1 < i.count
    THEN speakCurrent([i EXCEPT !.index = i.index + 1, !.currentIndex = i.index + 1])
    ELSE [i EXCEPT !.isPlaying = FALSE]

InitIos ==
  /\ HookFresh
  /\ demo = NoDemo
  /\ api = NoRequest
  /\ home = NoHome
  /\ ios = [NoSpeaker EXCEPT !.pc = "on"]

IosFrame ==
  UNCHANGED <<segments, status, index, rate, synthAvail, queue, paused, stale,
              last, run, demo, api, home>>

IosLoad ==
  /\ \E n \in 0..MaxLen : ios' = SpeakerLoad(ios, n)
  /\ IosFrame

IosPlay ==
  /\ Len(ios.synth) < MaxQueued
  /\ ios' = SpeakerPlay(ios)
  /\ IosFrame

IosPause ==
  /\ ios' = SpeakerPause(ios)
  /\ IosFrame

IosStop ==
  /\ ios' = SpeakerStop(ios)
  /\ IosFrame

IosNext ==
  /\ ios' = SpeakerNext(ios)
  /\ IosFrame

IosPrev ==
  /\ ios' = SpeakerPrev(ios)
  /\ IosFrame

\* The utterance being spoken ends: speechSynthesizer(_:didFinish:) runs and
\* hands its block to DispatchQueue.main.async.
IosDidFinish ==
  /\ ios.synth # <<>>
  /\ ~ios.isPaused
  /\ ios.blocks < MaxBlocks
  /\ ios' = [ios EXCEPT !.synth = Tail(@), !.blocks = @ + 1]
  /\ IosFrame

\* The main queue runs a block of didFinish.
IosRunBlock ==
  /\ ios.blocks > 0
  /\ Len(ios.synth) < MaxQueued
  /\ ios' = didFinishBlock([ios EXCEPT !.blocks = @ - 1])
  /\ IosFrame

NextIos ==
  \/ IosLoad
  \/ IosPlay
  \/ IosPause
  \/ IosStop
  \/ IosNext
  \/ IosPrev
  \/ IosDidFinish
  \/ IosRunBlock

SpecIos == InitIos /\ [][NextIos]_vars

TypeOK ==
  /\ status \in Statuses
  /\ index \in 0..(MaxLen - 1)
  /\ segments \in Payloads \cup {<<>>, EmptyPayload}
  /\ paused \in BOOLEAN
  /\ Cardinality(stale) <= MaxStale

----------------------------------------------------------------------------
\* Properties.  In an action formula the unprimed variables are the state a
\* handler starts in and last' names the handler that ran.

\* clamp(x, 0, hi) written out, independently of Clamp.
Clamped(x, hi) == IF x < 0 THEN 0 ELSE IF x > hi THEN hi ELSE x

\* The queue holds exactly one utterance, not yet started, for segment i of
\* the current list.
QueueIsFor(q, i) ==
  /\ Len(q) = 1
  /\ q[1].idx = i
  /\ HasSeg(segments, i)
  /\ q[1].text = SegAt(segments, i).text
  /\ ~q[1].started

\* C1: with the backend available, a list of length L >= 1 and currentIndex
\* in [0, L-1], skip(delta) leaves currentIndex = clamp(currentIndex + delta,
\* 0, L-1), inside [0, L-1], and submits one utterance, for that segment.
C1_SkipClamps ==
  [][(last'.op = "skip" /\ synthAvail /\ HasSeg(segments, index))
       => /\ index' = Clamped(index + last'.arg, Len(segments) - 1)
          /\ index' \in 0..(Len(segments) - 1)
          /\ last'.spoke = 1
          /\ QueueIsFor(queue', index')]_vars

\* 3 segments, index 1, skip(-MaxDelta): clamped to segment 0, which is spoken.
C1_Witness ==
  /\ last.op = "skip" /\ last.arg = 0 - MaxDelta /\ last.from = 1
  /\ last.from + last.arg < 0
  /\ synthAvail /\ Len(segments) = 3
  /\ index = 0 /\ QueueIsFor(queue, 0)

\* C2: when the current utterance, for index k, completes: if k = L-1 the
\* status becomes ended and nothing is submitted; if k < L-1 currentIndex
\* becomes k+1 and one utterance, for segment k+1, is submitted.
C2_CompletionAdvances ==
  [][(last'.op = "onend" /\ HasSeg(segments, Head(queue).idx)
        /\ Head(queue).text = SegAt(segments, Head(queue).idx).text)
       => LET k == Head(queue).idx
              L == Len(segments) IN
          /\ (k = L - 1 => status' = "ended" /\ last'.spoke = 0 /\ queue' = <<>>)
          /\ (k < L - 1 => index' = k + 1 /\ last'.spoke = 1 /\ QueueIsFor(queue', k + 1))]_vars

\* C3: pause() then play(), on a non-empty list with the backend available,
\* whatever the status pause() was issued in (playing included): status
\* becomes playing, currentIndex is unchanged, the backend is resumed, the
\* utterance in flight is kept and no utterance is submitted.
C3_PauseThenPlayResumes ==
  [][(last.op = "pause" /\ synthAvail /\ segments # <<>> /\ last'.op = "play")
       => /\ status' = "playing"
          /\ index' = index
          /\ paused /\ ~paused'
          /\ queue' = queue
          /\ last'.spoke = 0 /\ last'.cancelled = 0]_vars

\* play() has resumed the utterance of the second segment or a later one,
\* which had started to be spoken before it was paused.
C3_Witness ==
  /\ last.op = "play" /\ last.spoke = 0 /\ last.cancelled = 0
  /\ status = "playing" /\ ~paused
  /\ Len(queue) = 1 /\ queue[1].started /\ queue[1].idx = index /\ index > 0

\* C4: the end or error event of an utterance that was cancelled or
\* superseded changes neither currentIndex nor status and submits nothing.
C4_StaleCallbackIgnored ==
  [][(last'.op \in {"stale_onend", "stale_onerror"})
       => /\ index' = index
          /\ status' = status
          /\ last'.spoke = 0]_vars

\* C5: the backend never holds more than one submitted and unfinished
\* utterance, and no transition submits more than one.
C5_OneUtteranceInFlight ==
  /\ Len(queue) <= 1
  /\ last.spoke <= 1

\* A transition submitted an utterance after cancelling the outstanding one.
C5_Witness ==
  /\ Len(queue) = 1 /\ last.spoke = 1 /\ last.cancelled = 1

\* C6: from play() at currentIndex = i, while every utterance completes
\* without error and no transport command intervenes, the utterances
\* submitted are those of segments i, i+1, ..., L-1, in that order, one at a
\* time and each once, and the status becomes ended only after segment L-1.
C6_AutoAdvanceInOrder ==
  [][/\ (last'.op = "play" /\ synthAvail /\ ~paused /\ HasSeg(segments, index))
          => (last'.spoke = 1 /\ QueueIsFor(queue', index))
     /\ (run >= 0 /\ run' >= 0 /\ last'.op # "play" /\ last'.spoke >= 1)
          => (last'.spoke = 1 /\ QueueIsFor(queue', run + 1))
     /\ (run >= 0 /\ run' >= 0 /\ status # "ended" /\ status' = "ended")
          => run = Len(segments) - 1]_vars

\* C7: whenever the segment list is non-empty, currentIndex is in [0, length-1].
C7_IndexInRange ==
  segments # <<>> => index \in 0..(Len(segments) - 1)

\* C8: selecting segment i cancels the outstanding utterance, submits one
\* utterance, for segment i, and leaves currentIndex = i.
C8_SelectSpeaksSelected ==
  [][(last'.op = "select" /\ synthAvail)
       => /\ index' = last'.arg
          /\ last'.cancelled = Len(queue)
          /\ last'.spoke = 1
          /\ QueueIsFor(queue', last'.arg)]_vars

\* C9: restart(), from any status and index, on a non-empty list with the
\* backend available: every outstanding utterance is cancelled, currentIndex
\* is 0 and one utterance, for segment 0, is submitted.
C9_RestartFromZero ==
  [][(last'.op = "restart" /\ synthAvail /\ segments # <<>>)
       => /\ index' = 0
          /\ last'.cancelled = Len(queue)
          /\ last'.spoke = 1
          /\ QueueIsFor(queue', 0)]_vars

\* restart() on the third segment while paused with an utterance in flight.
C9_Witness ==
  /\ last.op = "restart" /\ paused /\ last.from = 2
  /\ last.cancelled = 1 /\ index = 0 /\ QueueIsFor(queue, 0)

\* C10 as claimed: stop() from any state empties the backend queue and leaves
\* status = idle and currentIndex unchanged.
C10_StopAlwaysIdle ==
  [][(last'.op = "stop")
       => /\ queue' = <<>>
          /\ status' = "idle"
          /\ index' = index]_vars

\* C10, amended: with the backend available stop() cancels every outstanding
\* utterance and leaves status = idle and currentIndex unchanged; with the
\* backend unavailable stop() changes neither status nor currentIndex.
C10_StopIdleWhenAvailable ==
  [][(last'.op = "stop")
       => /\ index' = index
          /\ queue' = <<>>
          /\ synthAvail => (status' = "idle" /\ last'.cancelled = Len(queue))
          /\ ~synthAvail => status' = status]_vars

\* stop() with the utterance of the third segment in flight.
C10_Witness ==
  /\ last.op = "stop" /\ synthAvail /\ last.from = 2
  /\ last.cancelled = 1 /\ status = "idle" /\ index = 2 /\ queue = <<>>

\* C11: pause() moves the engine to paused only when the status is playing;
\* in idle, ended, error or paused, or with the backend unavailable, it
\* leaves status and currentIndex unchanged.
C11_PauseOnlyWhenPlaying ==
  [][(last'.op = "pause")
       => /\ (status = "playing" /\ synthAvail) => status' = "paused"
          /\ (status # "playing" \/ ~synthAvail)
               => (status' = status /\ index' = index)]_vars

\* C12: play() in status idle, ended or error, on a non-empty list with the
\* backend available and currentIndex inside the list, submits exactly one
\* utterance, for segment currentIndex, and leaves currentIndex unchanged.
C12_PlayStartsFromIndex ==
  [][(last'.op = "play" /\ status \in {"idle", "ended", "error"}
        /\ synthAvail /\ HasSeg(segments, index))
       => /\ last'.spoke = 1
          /\ QueueIsFor(queue', index)
          /\ index' = index]_vars

\* C13: when the backend reports an error for the current utterance, the
\* status becomes error, currentIndex is unchanged and nothing is submitted.
C13_ErrorStops ==
  [][(last'.op = "onerror")
       => /\ status' = "error"
          /\ index' = index
          /\ last'.spoke = 0
          /\ queue' = Tail(queue)]_vars

\* The utterance of a segment that has a successor failed: no auto-advance.
C13_Witness ==
  /\ last.op = "onerror" /\ last.arg = index /\ HasSeg(segments, index + 1)
  /\ status = "error" /\ queue = <<>>

\* C14: with the backend unavailable play() on a non-empty list sets status
\* error and submits nothing, and pause() changes nothing; play() on an empty
\* list changes nothing, with or without a backend.
C14_BackendUnavailable ==
  [][/\ (last'.op = "play" /\ segments # <<>> /\ ~synthAvail)
          => (status' = "error" /\ index' = index /\ queue' = queue
              /\ last'.spoke = 0)
     /\ (last'.op = "play" /\ segments = <<>>)
          => (status' = status /\ index' = index /\ queue' = queue
              /\ paused' = paused /\ stale' = stale
              /\ last'.spoke = 0 /\ last'.cancelled = 0)
     /\ (last'.op = "pause" /\ ~synthAvail)
          => (status' = status /\ index' = index /\ queue' = queue
              /\ paused' = paused)]_vars

\* play() on a loaded list without a backend has set status error.
C14_Witness ==
  /\ ~synthAvail /\ last.op = "play" /\ segments # <<>>
  /\ status = "error" /\ queue = <<>> /\ last.spoke = 0

\* C15: a change of rate leaves the utterance in flight as it is, and every
\* utterance submitted afterwards by a command or by auto-advance on the
\* completion of the current utterance carries the rate then selected.
C15_RateUsedByNextUtterance ==
  [][/\ (last'.op = "setRate") => (queue' = queue /\ status' = status)
     /\ (last'.op \in {"play", "restart", "skip", "select", "onend"}
           /\ last'.spoke >= 1)
          => queue'[Len(queue')].rate = rate]_vars

\* The lines of a text, read off its positions: a line starts after a newline
\* (or at the start) and runs to the next newline; its trimmed content lies
\* between its first and its last character that is not white space.
LineStarts(t) ==
  {i \in 1..Len(t) : t[i] # "\n" /\ (i = 1 \/ t[i - 1] = "\n")}
LineEnd(t, i) ==
  CHOOSE j \in i..Len(t) :
    /\ \A k \in i..j : t[k] # "\n"
    /\ j = Len(t) \/ t[j + 1] = "\n"
Inked(t, i, j) == {k \in i..j : t[k] \notin White}
Between(t, ks) ==
  IF ks = {} THEN <<>>
  ELSE SubSeq(t, CHOOSE k \in ks : \A m \in ks : k <= m,
                 CHOOSE k \in ks : \A m \in ks : m <= k)
NonBlankStarts(t) == {i \in LineStarts(t) : Inked(t, i, LineEnd(t, i)) # {}}
NthStart(t, n) ==
  CHOOSE i \in NonBlankStarts(t) :
    Cardinality({x \in NonBlankStarts(t) : x < i}) = n - 1
ReferenceLines(t) ==
  [n \in 1..Cardinality(NonBlankStarts(t)) |->
     Between(t, Inked(t, NthStart(t, n), LineEnd(t, NthStart(t, n))))]

\* C16: normalizeDemoText returns the trimmed non-empty lines of its input in
\* input order with ids demo-0, demo-1, ..., or, when there is none, one
\* segment demo-0 holding the trimmed input; it never returns zero segments.
C16_DemoEqualsReference ==
  (demo.pc = "done") =>
    LET ref == ReferenceLines(demo.text)
        out == demo.segments
    IN  /\ Len(out) >= 1
        /\ (ref # <<>>) =>
             /\ Len(out) = Len(ref)
             /\ \A k \in 1..Len(ref) :
                  /\ out[k].text = ref[k]
                  /\ out[k].text # <<>>
                  /\ out[k].id = <<"demo", Str(k - 1)>>
        /\ (ref = <<>>) =>
             out = <<[id |-> <<"demo", "0">>,
                      text |-> Between(demo.text, Inked(demo.text, 1, Len(demo.text)))]>>
        /\ \A j, k \in 1..Len(out) : (out[j].id = out[k].id) => (j = k)

\* Two lines, one of them trimmed, have become two segments.
C16_Witness ==
  /\ demo.pc = "done"
  /\ \E k \in 1..Len(demo.text) : demo.text[k] = " "
  /\ Len(demo.segments) = 2
  /\ demo.segments[2].id = <<"demo", "1">>

\* The url names a post: some part of its path is status or statuses, in any
\* letter case, and the part after it begins with a digit.
HasIdentifier(body) ==
  \E i \in 1..(Len(body.path) - 1) :
    /\ body.path[i] \in {"status", "Status", "STATUS", "statuses", "Statuses"}
    /\ body.path[i + 1] \in {"42", "7x"}
\* The answer has arrived and POST has returned.
Returned == api.pc = "done"
\* The request got past its checks, the root fetch succeeded, and the root
\* post lacks its conversation id or its author, or the search failed.
SearchFailed == api.reqs = <<"root", "search">> /\ ~api.search.ok
RootLacksThread ==
  api.root.ok /\ (~api.root.data \/ ~api.root.conv \/ ~api.root.author)
Degraded == Returned /\ (RootLacksThread \/ SearchFailed)

C19_TitleCountsPosts ==
  (Returned /\ api.res.code = 200) =>
    api.res.title = <<IF api.root.name # "" THEN api.root.name ELSE "Thread",
                      Str(Len(api.res.segments)), "posts">>

\* C19, amended: a degraded result is titled "<name> (1 post)" or
\* "Thread (1 post)"; every other successful result as C19 says.
C19_TitleCountsPostsOrOnePost ==
  (Returned /\ api.res.code = 200) =>
    LET who == IF api.root.name # "" THEN api.root.name ELSE "Thread" IN
    IF Degraded
      THEN api.res.title = <<who, "1", "post">> /\ Len(api.res.segments) = 1
      ELSE api.res.title = <<who, Str(Len(api.res.segments)), "posts">>

\* A full result from which a post without text was filtered: one segment
\* out of two posts, titled with the count after filtering.
C19_Witness ==
  /\ Returned /\ api.res.code = 200 /\ ~Degraded
  /\ Len(api.search.tweets) = 2 /\ Len(api.res.segments) = 1
  /\ api.res.title = <<"Al", "1", "posts">>

\* C20: no segment of a successful result has an empty text.
C20_NoEmptySegment ==
  (Returned /\ api.res.code = 200) =>
    \A k \in 1..Len(api.res.segments) : api.res.segments[k].text # <<>>

\* A full thread came back: the search was answered successfully.
FullResult == Returned /\ api.reqs = <<"root", "search">> /\ api.search.ok
\* The posts of the search response that have something to say, and the
\* place of each among them by (creation time, place in the response).
Kept ==
  {k \in 1..Len(api.search.tweets) :
     \E c \in 1..Len(api.search.tweets[k].text) :
       api.search.tweets[k].text[c] \notin White}
Earlier(m, k) ==
  \/ api.search.tweets[m].created_at < api.search.tweets[k].created_at
  \/ /\ api.search.tweets[m].created_at = api.search.tweets[k].created_at
     /\ m < k
Rank(k) == 1 + Cardinality({m \in Kept : Earlier(m, k)})

\* C21: the segments of a full result are the returned posts with non-empty
\* cleaned text, each once, ascending by creation time, posts of equal time
\* in response order, each with the post's id as a string.
C21_SegmentsSortedStable ==
  FullResult =>
    /\ Len(api.res.segments) = Cardinality(Kept)
    /\ \A k \in Kept :
         /\ api.res.segments[Rank(k)].id = Str(api.search.tweets[k].id)
         /\ api.res.segments[Rank(k)].text = cleanText(api.search.tweets[k].text)

\* Two posts answered newest first have been put in order.
C21_Witness ==
  /\ FullResult /\ Len(api.search.tweets) = 2
  /\ api.search.tweets[1].created_at > api.search.tweets[2].created_at
  /\ Len(api.res.segments) = 2
  /\ api.res.segments[1].id = "2" /\ api.res.segments[2].id = "1"

\* C22: at most one fetch is in flight; the payload on display comes from
\* the user's latest load action; after Clear nothing is on display until a
\* new load is started.
C22_LastWriteWins ==
  /\ Cardinality(home.pending) <= 1
  /\ (home.shown # 0) => (home.shown = home.acts)
  /\ (home.kind = "clear") => (home.shown = 0 /\ segments = <<>>)

\* C23: on a payload of one segment with empty text, play() with the backend
\* available and idle submits no utterance and sets status ended.
C23_EmptySegmentUnspeakable ==
  [][(last'.op = "play" /\ segments = EmptyPayload /\ synthAvail /\ ~paused
        /\ index = 0 /\ status \in {"idle", "ended", "error"})
       => (last'.spoke = 0 /\ status' = "ended")]_vars

\* C24: loading a payload, with the backend available, leaves status idle
\* and currentIndex 0, and a play() that follows the load at once, the
\* synthesizer not being paused, speaks segment 0 of the new payload.
C24_ReinitialisedPerPayload ==
  [][/\ (last'.op = "load" /\ synthAvail) => (status' = "idle" /\ index' = 0)
     /\ (last.op = "load" /\ last'.op = "play" /\ synthAvail /\ ~paused)
          => (last'.spoke = 1 /\ QueueIsFor(queue', 0))]_vars

C26_SpeakerOneUtterance ==
  /\ (ios.count > 0) => (ios.index \in 0..(ios.count - 1))
  /\ ios.currentIndex = ios.index
  /\ Len(ios.synth) <= 1

====
